---- MODULE Spec2Model ----
(***************************************************************************)
(* Model of phoebe/algorithms/mrch.c: the marching-triangles discretizer   *)
(* of an implicit surface (cdiscretize) and its Python entry point         *)
(* (discretize).                                                           *)
(*                                                                         *)
(* Abstraction of the geometry.  A MeshVertex is represented by the index  *)
(* it receives in V (every call of project_onto_potential yields a new     *)
(* surface point).  Two vertices are at distance 0 when they are the same  *)
(* vertex and at distance EdgeLen otherwise.  The interior angles omega[i] *)
(* are results of floating-point geometry on an arbitrary potential; they  *)
(* are chosen by the environment, except that the angle between two        *)
(* identical rays (predecessor = successor) is exactly 0, as atan2 of the  *)
(* same arguments cancels.  Angles are integers in micro-radians.          *)
(***************************************************************************)
EXTENDS Integers, Sequences, FiniteSets, TLC

VARIABLES nargs, potential, max_triangles, npars, pc, err,
          V, P, Pi, Ts, step, minidx, minangle, nt, table,
          omegas, grad, branch, nnsq, n_iter, d2, warned

vars == <<nargs, potential, max_triangles, npars, pc, err,
          V, P, Pi, Ts, step, minidx, minangle, nt, table,
          omegas, grad, branch, nnsq, n_iter, d2, warned>>

(* the locals of argmin, vertex_from_pot and project_onto_potential *)
aux == <<omegas, grad, branch, nnsq, n_iter, d2, warned>>

----------------------------------------------------------------------------
(* Bounds of the model *)

MaxNargs == 10
MaxTri == 2
MaxV == 8
MaxLen == 3
MaxPiLen == 2
MaxVal == 2
AngleStep == 50000
MaxOmegaLen == 4
MaxOmegaVal == 3
MaxGrad == 2

----------------------------------------------------------------------------
(* Program constants *)

TwoPI == 6283185
PI_e8 == 314159265
DomegaMin == 800000
ArgminEps == 1
HexagonSize == 6
MaxOptPars == 6
EdgeLen == 2
DistTol == 1
MaxNewton == 100
WarnAt == 90
NaNd == -1

Registered == {"Sphere", "BinaryRoche", "MisalignedBinaryRoche",
               "RotateRoche", "Torus", "Heart"}

PotentialNames == Registered \cup {"UnknownPot"}

idx1 == <<1, 2, 3, 4, 5, 6>>
idx2 == <<2, 3, 4, 5, 6, 1>>

----------------------------------------------------------------------------
(* Helpers *)

Range(s) == {s[i] : i \in 1..Len(s)}

IsPrefix(s, t) == Len(s) <= Len(t) /\ \A i \in 1..Len(s) : s[i] = t[i]

(* element at 0-based index i of a C array modelled as a sequence *)
At(s, i) == s[i + 1]

Triangle(a, b, c) == [v0 |-> a, v1 |-> b, v2 |-> c]

----------------------------------------------------------------------------
(* vertex_array_append / triangle_array_append *)

vertex_array_append(va, v) == Append(va, v)

(* variant: the size is not advanced, the last slot is overwritten *)
triangle_array_append_overwrite(ta, t) ==
  IF Len(ta) = 0 THEN <<t>> ELSE [ta EXCEPT ![Len(ta)] = t]

triangle_array_append(ta, t) == Append(ta, t)

(* variant: Pend is copied from idx instead of idx+1, the pivot stays *)
drop_and_stack_keep(Pv, Piv, idx) ==
  SubSeq(Pv, 1, idx) \o Piv \o SubSeq(Pv, idx + 1, Len(Pv))

(* vertex_array_drop_and_stack: P = [Pstart][Pi][Pend] *)
drop_and_stack(Pv, Piv, idx) ==
  LET oldsize == Len(Pv)
      Pstart  == IF idx > 0 THEN [i \in 1..idx |-> At(Pv, i - 1)] ELSE <<>>
      Pend    == IF idx < oldsize - 1
                 THEN [i \in 1..(oldsize - idx - 1) |-> At(Pv, idx + i)]
                 ELSE <<>>
      newsize == oldsize + Len(Piv) - 1
      (* realloc keeps the old contents up to the smaller of the sizes *)
      kept(i) == IF i < oldsize THEN At(Pv, i) ELSE -1
  IN  IF newsize = 0 THEN <<>>
      ELSE [j \in 1..newsize |->
              LET i == j - 1 IN
              IF idx > 0 /\ i < Len(Pstart) THEN At(Pstart, i)
              ELSE IF Len(Piv) > 0 /\ i >= idx /\ i < idx + Len(Piv)
                   THEN At(Piv, i - idx)
              ELSE IF idx < newsize /\ i >= idx + Len(Piv)
                   THEN At(Pend, i - idx - Len(Piv))
              ELSE kept(i)]

----------------------------------------------------------------------------
(* variant: a plain minimum, any smaller entry replaces the candidate *)
argmin_plain(array) ==
  CHOOSE k \in 0..(Len(array) - 1) :
    /\ \A i \in 0..(Len(array) - 1) : array[k + 1] <= array[i + 1]
    /\ \A j \in 0..(k - 1) : array[j + 1] > array[k + 1]

(* argmin: linear scan, a new minimum must beat the current by > 1e-6 *)

RECURSIVE argminFrom(_, _, _)
argminFrom(array, i, min) ==
  IF i >= Len(array) THEN min
  ELSE argminFrom(array, i + 1,
                  IF At(array, min) - At(array, i) > ArgminEps THEN i ELSE min)

argmin(array) == argminFrom(array, 1, 0)

(* variant: the widening does not test nt > 1 *)
WedgeCount_noguard(alpha) ==
  LET nt0 == ((300 * alpha) \div PI_e8) + 1
  IN  IF alpha < DomegaMin * nt0 THEN nt0 - 1 ELSE nt0

(* nt = trunc(minangle*3/PI) + 1, widened when domega < 0.8 *)
WedgeCount(alpha) ==
  LET nt0 == ((300 * alpha) \div PI_e8) + 1
  IN  IF alpha < DomegaMin * nt0 /\ nt0 > 1 THEN nt0 - 1 ELSE nt0

(* Heron: 16 * area^2 from the three side lengths *)
Dist(a, b) == IF a = b THEN 0 ELSE EdgeLen

Heron16(t) ==
  LET side1 == Dist(t.v0, t.v1)
      side2 == Dist(t.v0, t.v2)
      side3 == Dist(t.v2, t.v1)
  IN  (side1 + side2 + side3) * (side2 + side3 - side1)
        * (side1 + side3 - side2) * (side1 + side2 - side3)

----------------------------------------------------------------------------
(* Interior angles of the front *)

Angles == {500000, 1800000, 2500000, 3300000, 4500000, 5500000}

pred(Pv, i) == IF i = 0 THEN Len(Pv) - 1 ELSE i - 1
succ(Pv, i) == IF i < Len(Pv) - 1 THEN i + 1 ELSE 0

(* the angle measured at P[i]; geo is what the geometry yields when the two
   rays differ *)
InteriorAngle(Pv, i, geo) ==
  LET adiff == IF At(Pv, pred(Pv, i)) = At(Pv, succ(Pv, i)) THEN 0 ELSE geo
  IN  (IF adiff < 0 THEN adiff + TwoPI ELSE adiff) % TwoPI

(* the geometries tried: one vertex k with angle a, the others either tied
   with it or wider *)
Geometries(Pv) ==
  {[i \in 1..Len(Pv) |-> IF i = k THEN a ELSE IF tie THEN a ELSE TwoPI - 1] :
     k \in {2, Len(Pv)} \cap (1..Len(Pv)), a \in Angles, tie \in BOOLEAN}

Omega(Pv, geo) == [i \in 1..Len(Pv) |-> InteriorAngle(Pv, i - 1, geo[i])]

----------------------------------------------------------------------------
(* discretize: the Python entry point *)

(* the calls tried: every argument count with every name, and the marching
   of a sphere under every step bound *)
Calls ==
  {[nargs |-> n, potential |-> "", max_triangles |-> 0] : n \in 0..2}
  \cup {[nargs |-> n, potential |-> p, max_triangles |-> 1] :
          n \in 3..MaxNargs, p \in PotentialNames}
  \cup {[nargs |-> 4, potential |-> "Sphere", max_triangles |-> m] :
          m \in (-1)..MaxTri}

(* nothing of the helper functions is running *)
AuxIdle ==
  /\ omegas = <<>>
  /\ grad = <<0, 0, 0>>
  /\ branch = "none"
  /\ nnsq = 0
  /\ n_iter = 0
  /\ d2 = 0
  /\ warned = FALSE

Init ==
  /\ \E c \in Calls : /\ nargs = c.nargs
                      /\ potential = c.potential
                      /\ max_triangles = c.max_triangles
  /\ npars = nargs
  /\ pc = "call"
  /\ err = "none"
  /\ V = <<>>
  /\ P = <<>>
  /\ Pi = <<>>
  /\ Ts = <<>>
  /\ step = -1
  /\ minidx = 0
  /\ minangle = 0
  /\ nt = 0
  /\ table = <<>>
  /\ AuxIdle

Fail(kind) ==
  /\ err' = kind
  /\ pc' = "error"
  /\ UNCHANGED <<nargs, potential, max_triangles, npars,
                 V, P, Pi, Ts, step, minidx, minangle, nt, table, aux>>

Accept(n) ==
  /\ npars' = n
  /\ pc' = "SEEDING"
  /\ UNCHANGED <<nargs, potential, max_triangles, err,
                 V, P, Pi, Ts, step, minidx, minangle, nt, table, aux>>

discretize ==
  /\ pc = "call"
  /\ IF npars < 4 THEN Fail("NotEnoughParameters")
     ELSE IF npars > 3 + MaxOptPars THEN Fail("TypeError")
     ELSE IF potential = "Sphere"
          THEN IF npars # 4 THEN Fail("BadArity") ELSE Accept(npars)
     ELSE IF potential = "BinaryRoche"
          THEN IF npars < 6 \/ npars > 7 THEN Fail("BadArity")
               ELSE IF npars = 6 THEN Accept(npars + 1) ELSE Accept(npars)
     ELSE IF potential = "MisalignedBinaryRoche"
          THEN IF npars < 8 \/ npars > 9 THEN Fail("BadArity")
               ELSE IF npars = 8 THEN Accept(npars + 1) ELSE Accept(npars)
     ELSE IF potential = "RotateRoche"
          THEN IF npars # 5 THEN Fail("BadArity") ELSE Accept(npars)
     ELSE IF potential = "Torus"
          THEN IF npars # 5 THEN Fail("BadArity") ELSE Accept(npars)
     ELSE IF potential = "Heart"
          THEN IF npars # 4 THEN Fail("BadArity") ELSE Accept(npars)
     ELSE Fail("UnknownPotential")

----------------------------------------------------------------------------
(* cdiscretize: the driver *)

(* p0 = project_onto_potential(init); V gets p0 *)
Seed ==
  /\ pc = "SEEDING"
  /\ V' = vertex_array_append(V, Len(V))
  /\ pc' = "RINGING"
  /\ UNCHANGED <<nargs, potential, max_triangles, npars, err,
                 P, Pi, Ts, step, minidx, minangle, nt, table, aux>>

RECURSIVE RingVertices(_, _, _)
RingVertices(Vv, Pv, i) ==
  IF i >= HexagonSize THEN <<Vv, Pv>>
  ELSE LET pk == Len(Vv)
       IN  RingVertices(vertex_array_append(Vv, pk),
                        vertex_array_append(Pv, pk), i + 1)

RECURSIVE RingTriangles(_, _, _)
RingTriangles(Vv, Tv, i) ==
  IF i >= HexagonSize THEN Tv
  ELSE RingTriangles(Vv,
         triangle_array_append(Tv,
           Triangle(At(Vv, 0), At(Vv, At(idx1, i)), At(Vv, At(idx2, i)))),
         i + 1)

Ring ==
  /\ pc = "RINGING"
  /\ LET vp == RingVertices(V, P, 0)
     IN  /\ V' = vp[1]
         /\ P' = vp[2]
         /\ Ts' = RingTriangles(vp[1], Ts, 0)
  /\ pc' = "MARCHING"
  /\ UNCHANGED <<nargs, potential, max_triangles, npars, err,
                 Pi, step, minidx, minangle, nt, table, aux>>

(* variant: the bound is tested with >= *)
StepBoundHit_ge(st) == max_triangles > 0 /\ st >= max_triangles

(* the test of the step bound at the top of an iteration *)
StepBoundHit(st) == max_triangles > 0 /\ st > max_triangles

(* variant: the fan loop runs to i = n *)
RECURSIVE Fan_le(_, _, _, _, _, _)
Fan_le(Vv, Tv, v1, p0m, n, i) ==
  IF i > n THEN <<Vv, Tv>>
  ELSE LET pk == Len(Vv)
           V2 == vertex_array_append(Vv, pk)
           t0 == IF i = 1 THEN v1 ELSE At(V2, Len(V2) - 2)
       IN  Fan_le(V2, triangle_array_append(Tv, Triangle(t0, pk, p0m)),
                  v1, p0m, n, i + 1)

(* the fan loop, i = 1 .. n-1: returns <<V, Ts>> *)
RECURSIVE Fan(_, _, _, _, _, _)
Fan(Vv, Tv, v1, p0m, n, i) ==
  IF i >= n THEN <<Vv, Tv>>
  ELSE LET pk == Len(Vv)
           V2 == vertex_array_append(Vv, pk)
           t0 == IF i = 1 THEN v1 ELSE At(V2, Len(V2) - 2)
       IN  Fan(V2, triangle_array_append(Tv, Triangle(t0, pk, p0m)),
               v1, p0m, n, i + 1)

(* the closing triangle *)
Closing(Vv, v1, v2, p0m, n) ==
  IF n = 1 THEN Triangle(v1, v2, p0m)
  ELSE Triangle(At(Vv, Len(Vv) - 1), v2, p0m)

(* variant: the segment is read one slot too early in V *)
NewSegment_early(Vv, n) == [i \in 1..(n - 1) |-> At(Vv, Len(Vv) - n + i - 1)]

(* Pi->v[i-1] = V->v[V->size-nt+i], i = 1 .. nt-1 *)
NewSegment(Vv, n) == [i \in 1..(n - 1) |-> At(Vv, Len(Vv) - n + i)]

MarchStep ==
  /\ pc = "MARCHING"
  /\ Len(P) > 0
  /\ ~StepBoundHit(step + 1)
  /\ \E geo \in Geometries(P) :
       LET omega == Omega(P, geo)
           k     == argmin(omega)
           alpha == At(omega, k)
           n     == WedgeCount(alpha)
           p0m   == At(P, k)
           v1    == At(P, pred(P, k))
           v2    == At(P, succ(P, k))
           fan   == Fan(V, Ts, v1, p0m, n, 1)
       IN  /\ max_triangles > 0 \/ Len(V) + n - 1 <= MaxV
           /\ step' = step + 1
           /\ minidx' = k
           /\ minangle' = alpha
           /\ nt' = n
           /\ V' = fan[1]
           /\ Ts' = triangle_array_append(fan[2],
                                          Closing(fan[1], v1, v2, p0m, n))
           /\ Pi' = NewSegment(fan[1], n)
           /\ P' = drop_and_stack(P, NewSegment(fan[1], n), k)
  /\ UNCHANGED <<nargs, potential, max_triangles, npars, pc, err, table, aux>>

(* break: the step counter exceeds max_triangles *)
StepBreak ==
  /\ pc = "MARCHING"
  /\ Len(P) > 0
  /\ StepBoundHit(step + 1)
  /\ step' = step + 1
  /\ pc' = "FINALIZING"
  /\ UNCHANGED <<nargs, potential, max_triangles, npars, err,
                 V, P, Pi, Ts, minidx, minangle, nt, table, aux>>

(* the while condition fails: the front is empty *)
FrontEmpty ==
  /\ pc = "MARCHING"
  /\ ~(Len(P) > 0)
  /\ pc' = "FINALIZING"
  /\ UNCHANGED <<nargs, potential, max_triangles, npars, err,
                 V, P, Pi, Ts, step, minidx, minangle, nt, table, aux>>

(* one output row per triangle: centroid of row i, area, the 3 vertices *)
Row(i, t) == [c |-> i, area16 |-> Heron16(t),
              v0 |-> t.v0, v1 |-> t.v1, v2 |-> t.v2]

Finalize ==
  /\ pc = "FINALIZING"
  /\ table' = [i \in 1..Len(Ts) |-> Row(i, Ts[i])]
  /\ pc' = "DONE"
  /\ UNCHANGED <<nargs, potential, max_triangles, npars, err,
                 V, P, Pi, Ts, step, minidx, minangle, nt, aux>>

Next ==
  \/ discretize
  \/ Seed
  \/ Ring
  \/ MarchStep
  \/ StepBreak
  \/ FrontEmpty
  \/ Finalize

Spec == Init /\ [][Next]_vars

----------------------------------------------------------------------------
(* vertex_array_drop_and_stack on its own: any front, any segment, any index *)

SeqsUpTo(S, lo, hi) == UNION {[1..n -> S] : n \in lo..hi}

InitDrop ==
  /\ P \in SeqsUpTo(0..MaxVal, 1, MaxLen)
  /\ Pi \in SeqsUpTo(0..MaxVal, 0, MaxPiLen)
  /\ minidx \in 0..(Len(P) - 1)
  /\ pc = "drop_in"
  /\ nargs = 0
  /\ potential = ""
  /\ max_triangles = 0
  /\ npars = 0
  /\ err = "none"
  /\ V = <<>>
  /\ Ts = <<>>
  /\ step = -1
  /\ minangle = 0
  /\ nt = 0
  /\ table = <<>>
  /\ AuxIdle

DropAndStack ==
  /\ pc = "drop_in"
  /\ P' = drop_and_stack(P, Pi, minidx)
  /\ pc' = "drop_out"
  /\ UNCHANGED <<nargs, potential, max_triangles, npars, err,
                 V, Pi, Ts, step, minidx, minangle, nt, table, aux>>

NextDrop == DropAndStack

SpecDrop == InitDrop /\ [][NextDrop]_vars

----------------------------------------------------------------------------
(* the driver is not running: the helper functions are applied on their own *)
DriverIdle ==
  /\ nargs = 0
  /\ potential = ""
  /\ max_triangles = 0
  /\ npars = 0
  /\ err = "none"
  /\ V = <<>>
  /\ P = <<>>
  /\ Pi = <<>>
  /\ Ts = <<>>
  /\ step = -1
  /\ minidx = 0
  /\ table = <<>>

----------------------------------------------------------------------------
(* the wedge division on its own: any pivot angle in [0, 2 PI) *)

WedgeAngles ==
  {a \in {i * AngleStep : i \in 0..((TwoPI - 1) \div AngleStep)}
          \cup {n * DomegaMin + e : n \in 1..6, e \in {-1, 0}}
          \cup {((n * PI_e8) \div 300) + e : n \in 1..6, e \in {0, 1}}
          \cup {TwoPI - 1} :
     a >= 0 /\ a < TwoPI}

InitWedge ==
  /\ minangle \in WedgeAngles
  /\ nt = 0
  /\ pc = "wedge_in"
  /\ DriverIdle
  /\ AuxIdle

WedgeDivide ==
  /\ pc = "wedge_in"
  /\ nt' = WedgeCount(minangle)
  /\ pc' = "wedge_out"
  /\ UNCHANGED <<nargs, potential, max_triangles, npars, err,
                 V, P, Pi, Ts, step, minidx, minangle, table, aux>>

NextWedge == WedgeDivide

SpecWedge == InitWedge /\ [][NextWedge]_vars

----------------------------------------------------------------------------
(* argmin on its own: any non-empty array of angles *)

InitArgmin ==
  /\ omegas \in SeqsUpTo(0..MaxOmegaVal, 1, MaxOmegaLen)
  /\ minidx = 0
  /\ pc = "argmin_in"
  /\ nargs = 0
  /\ potential = ""
  /\ max_triangles = 0
  /\ npars = 0
  /\ err = "none"
  /\ V = <<>>
  /\ P = <<>>
  /\ Pi = <<>>
  /\ Ts = <<>>
  /\ step = -1
  /\ minangle = 0
  /\ nt = 0
  /\ table = <<>>
  /\ grad = <<0, 0, 0>>
  /\ branch = "none"
  /\ nnsq = 0
  /\ n_iter = 0
  /\ d2 = 0
  /\ warned = FALSE

(* minidx = argmin(omega, P->size); minangle = omega[minidx] *)
ArgminScan ==
  /\ pc = "argmin_in"
  /\ minidx' = argmin(omegas)
  /\ minangle' = At(omegas, argmin(omegas))
  /\ pc' = "argmin_out"
  /\ UNCHANGED <<nargs, potential, max_triangles, npars, err,
                 V, P, Pi, Ts, step, nt, table,
                 omegas, grad, branch, nnsq, n_iter, d2, warned>>

NextArgmin == ArgminScan

SpecArgmin == InitArgmin /\ [][NextArgmin]_vars

----------------------------------------------------------------------------
(* vertex_from_pot: the choice of the tangent t1.  The normal is
   n = grad / |grad|; its components are compared and squared exactly, as
   fractions over |grad|^2. *)

NormSq(g) == g[1] * g[1] + g[2] * g[2] + g[3] * g[3]

(* n[k] > 0.5 for the component c = g[k] of the gradient *)
GtHalf(c, g) == c > 0 /\ 4 * c * c > NormSq(g)

(* the branch taken by  if (n[0] > 0.5 || n[1] > 0.5) *)
FrameBranch(g) == IF GtHalf(g[1], g) \/ GtHalf(g[2], g) THEN "xy" ELSE "xz"

(* nn*nn of the branch, times |grad|^2 *)
FrameNormSq(g) ==
  IF FrameBranch(g) = "xy" THEN g[2] * g[2] + g[1] * g[1]
  ELSE g[1] * g[1] + g[3] * g[3]

Gradients ==
  {g \in [1..3 -> (-MaxGrad)..MaxGrad] : NormSq(g) > 0}

InitFrame ==
  /\ grad \in Gradients
  /\ branch = "none"
  /\ nnsq = 0
  /\ pc = "frame_in"
  /\ DriverIdle
  /\ minangle = 0
  /\ nt = 0
  /\ omegas = <<>>
  /\ n_iter = 0
  /\ d2 = 0
  /\ warned = FALSE

VertexFromPot ==
  /\ pc = "frame_in"
  /\ branch' = FrameBranch(grad)
  /\ nnsq' = FrameNormSq(grad)
  /\ pc' = "frame_out"
  /\ UNCHANGED <<nargs, potential, max_triangles, npars, err,
                 V, P, Pi, Ts, step, minidx, minangle, nt, table,
                 omegas, grad, n_iter, d2, warned>>

NextFrame == VertexFromPot

SpecFrame == InitFrame /\ [][NextFrame]_vars

----------------------------------------------------------------------------
(* project_onto_potential: the Newton loop.  d2 is the squared distance
   |r - ri|^2 in units of 1e-12, NaNd when a coordinate is NaN; ri starts at
   the origin, so d2 starts as |r|^2 of the input point.  The distance after
   a step depends on the potential and is chosen by the environment. *)

Dist2Vals == {0, 1, 2, 1000000}

(* (|r - ri|^2 > 1e-12 && n_iter < 100); a comparison with NaN is false *)
LoopCond(d, n) == d # NaNd /\ d > DistTol /\ n < MaxNewton

InitProj ==
  /\ d2 \in Dist2Vals
  /\ n_iter = 0
  /\ warned = FALSE
  /\ pc = "proj_loop"
  /\ DriverIdle
  /\ minangle = 0
  /\ nt = 0
  /\ omegas = <<>>
  /\ grad = <<0, 0, 0>>
  /\ branch = "none"
  /\ nnsq = 0

(* one pass of the loop body *)
NewtonStep ==
  /\ pc = "proj_loop"
  /\ LoopCond(d2, n_iter)
  /\ d2' \in Dist2Vals \cup {NaNd}
  /\ n_iter' = n_iter + 1
  /\ UNCHANGED <<nargs, potential, max_triangles, npars, pc, err,
                 V, P, Pi, Ts, step, minidx, minangle, nt, table,
                 omegas, grad, branch, nnsq, warned>>

(* the loop is left: the warning, then return vertex_from_pot(r) *)
ProjReturn ==
  /\ pc = "proj_loop"
  /\ ~LoopCond(d2, n_iter)
  /\ warned' = (n_iter >= WarnAt)
  /\ pc' = "proj_done"
  /\ UNCHANGED <<nargs, potential, max_triangles, npars, err,
                 V, P, Pi, Ts, step, minidx, minangle, nt, table,
                 omegas, grad, branch, nnsq, n_iter, d2>>

NextProj ==
  \/ NewtonStep
  \/ ProjReturn

SpecProj == InitProj /\ [][NextProj]_vars

----------------------------------------------------------------------------
(* Claims *)

Iteration == pc = "MARCHING" /\ pc' = "MARCHING" /\ step' = step + 1

(* C1: with max_triangles = N > 0 and a front that is not empty, the driver
   stops by the step bound with exactly 6 + N rows. *)
C1_StepBoundRows ==
  (pc = "DONE" /\ max_triangles > 0 /\ Len(P) > 0)
    => Len(table) = HexagonSize + max_triangles

(* the arities the potentials are declared with *)
DeclaredArity(p) ==
  CASE p = "Sphere" -> {1}
    [] p = "BinaryRoche" -> {3, 4}
    [] p = "MisalignedBinaryRoche" -> {5, 6}
    [] p = "RotateRoche" -> {2}
    [] p = "Torus" -> {2}
    [] p = "Heart" -> {0}

(* C2: a call for a registered potential is accepted exactly when the number
   of parameters after the name is the declared arity; every other count
   fails with BadArity and produces no mesh. *)
C2_ArityDecides ==
  (pc # "call" /\ potential \in Registered)
    => IF (nargs - 3) \in DeclaredArity(potential)
       THEN err = "none" /\ pc # "error"
       ELSE err = "BadArity" /\ pc = "error" /\ V = <<>> /\ Ts = <<>>
              /\ table = <<>>

(* C3: a call with delta, max_triangles and an unregistered name fails with
   UnknownPotential whatever number of parameters follows the name, and the
   driver is never started. *)
C3_UnknownName ==
  (pc # "call" /\ nargs >= 3 /\ potential \notin Registered)
    => err = "UnknownPotential" /\ pc = "error" /\ V = <<>> /\ P = <<>>
         /\ Ts = <<>> /\ table = <<>>

PhaseRank(p) ==
  CASE p = "SEEDING" -> 1
    [] p = "RINGING" -> 2
    [] p = "MARCHING" -> 3
    [] p = "FINALIZING" -> 4
    [] p = "DONE" -> 5
    [] OTHER -> 0

(* C4: an accepted call goes through SEEDING, RINGING, MARCHING, FINALIZING,
   DONE in this order and never back; it leaves MARCHING exactly when the
   front is empty or max_triangles > 0 and the step counter exceeds it. *)
C4_PhaseOrder ==
  [][/\ (pc = "call" /\ pc' # "error") => pc' = "SEEDING"
     /\ (PhaseRank(pc) > 0 /\ pc' # pc)
          => PhaseRank(pc') = PhaseRank(pc) + 1
     /\ pc = "MARCHING"
          => ((pc' # "MARCHING")
               <=> (Len(P) = 0
                    \/ (max_triangles > 0 /\ step' > max_triangles)))]_vars

C4_Witness ==
  pc = "DONE" /\ Len(P) > 0 /\ max_triangles > 0 /\ step > max_triangles

(* C5: an iteration with wedge count nt adds exactly nt triangles and changes
   the size of the front by exactly nt - 2, starting from 6 triangles and a
   front of 6 after the hexagon. *)
C5_MeshSize ==
  /\ []((pc = "MARCHING" /\ step = -1)
          => (Len(Ts) = HexagonSize /\ Len(P) = HexagonSize))
  /\ [][Iteration => (/\ Len(Ts') = Len(Ts) + nt'
                      /\ Len(P') = Len(P) + nt' - 2)]_vars

C5_Witness == pc = "MARCHING" /\ step >= 1 /\ nt >= 3

(* C6: every emitted triangle has a strictly positive Heron area; none has
   two equal vertices. *)
C6_PositiveArea ==
  /\ \A i \in 1..Len(Ts) :
        /\ Heron16(Ts[i]) > 0
        /\ Cardinality({Ts[i].v0, Ts[i].v1, Ts[i].v2}) = 3
  /\ \A i \in 1..Len(table) : table[i].area16 > 0

(* C7: T and V only grow at their end, and the table has one row per
   triangle, row i holding the vertices of the i-th triangle. *)
C7_AppendOnly ==
  /\ [][IsPrefix(Ts, Ts') /\ IsPrefix(V, V')]_vars
  /\ [](pc = "DONE"
          => /\ Len(table) = Len(Ts)
             /\ \A i \in 1..Len(Ts) :
                   /\ table[i].v0 = Ts[i].v0
                   /\ table[i].v1 = Ts[i].v1
                   /\ table[i].v2 = Ts[i].v2)

C7_Witness ==
  pc = "DONE" /\ step >= 2 /\ Len(table) > HexagonSize + 2
    /\ Len(V) > HexagonSize + 1

(* C8: drop_and_stack(P, Pi, idx) leaves P[0..idx-1], then Pi, then
   P[idx+1..]; the size is the old size - 1 + |Pi|. *)
C8_DropAndStack ==
  [][pc = "drop_in"
      => /\ P' = SubSeq(P, 1, minidx) \o Pi \o SubSeq(P, minidx + 2, Len(P))
         /\ Len(P') = Len(P) - 1 + Len(Pi)
         /\ \A i \in 1..minidx : P'[i] = P[i]
         /\ \A i \in (minidx + 2)..Len(P) : P'[i - 1 + Len(Pi)] = P[i]
         /\ (Len(P) = 1 /\ Len(Pi) = 0) => P' = <<>>]_vars

C8_Witness ==
  pc = "drop_out" /\ minidx > 0 /\ Len(Pi) = 2
    /\ Len(P) > minidx + Len(Pi)

(* C9: the main loop is never entered with a front of exactly one vertex. *)
C9_NoSingleFront == pc = "MARCHING" => Len(P) # 1

(* C10: an iteration with pivot k replaces P[k] by the nt - 1 vertices
   projected in it, in creation order; only the pivot leaves the front, and
   the front is made of vertices of V. *)
C10_FrontSplice ==
  /\ [](Range(P) \subseteq Range(V))
  /\ [][Iteration
         => LET k == minidx'
                q == SubSeq(V', Len(V) + 1, Len(V'))
            IN  /\ Len(q) = nt' - 1
                /\ P' = SubSeq(P, 1, k) \o q \o SubSeq(P, k + 2, Len(P))
                /\ Range(P) \ Range(P') = {P[k + 1]}
                /\ Range(q) \cap Range(V) = {}]_vars

C10_Witness ==
  pc = "MARCHING" /\ nt = 3 /\ minidx = 1 /\ Len(Pi) = 2 /\ step >= 1

(* C11: for a pivot angle alpha in [0, 2 PI) the wedge count is
   floor(3 alpha / PI) + 1, less one when alpha / nt < 0.8 and nt > 1; it is
   between 1 and 6, and afterwards nt = 1 or alpha / nt >= 0.8. *)
C11_WedgeCount ==
  pc = "wedge_out"
    => LET n0 == CHOOSE n \in 1..6 : /\ (n - 1) * PI_e8 <= 300 * minangle
                                     /\ 300 * minangle < n * PI_e8
           expected == IF n0 > 1 /\ minangle < DomegaMin * n0
                       THEN n0 - 1 ELSE n0
       IN  /\ nt = expected
           /\ 1 <= nt /\ nt <= 6
           /\ (nt = 1 \/ minangle >= DomegaMin * nt)

C11_Witness ==
  pc = "wedge_out" /\ nt = 2 /\ 300 * minangle >= 2 * PI_e8

(* the minimum of a non-empty array *)
MinOf(array) ==
  CHOOSE m \in Range(array) : \A i \in 1..Len(array) : m <= array[i]

(* C12 as stated: the scan returns the earliest index whose value is within
   1e-6 of the minimum of omega. *)
C12_EarliestNearMin ==
  pc = "argmin_out"
    => /\ omegas[minidx + 1] - MinOf(omegas) <= ArgminEps
       /\ \A j \in 0..(minidx - 1) :
             omegas[j + 1] - MinOf(omegas) > ArgminEps

(* C12 as amended: the value at the returned index k is within 1e-6 of the
   minimum, every earlier entry is larger than it, and k > 0 only when an
   earlier entry is larger by more than 1e-6; an earlier entry within 1e-6
   of the minimum may be passed over. *)
C12_ScanResult ==
  pc = "argmin_out"
    => /\ minidx \in 0..(Len(omegas) - 1)
       /\ minangle = omegas[minidx + 1]
       /\ omegas[minidx + 1] - MinOf(omegas) <= ArgminEps
       /\ \A j \in 0..(minidx - 1) : omegas[j + 1] > omegas[minidx + 1]
       /\ minidx > 0
            => \E j \in 0..(minidx - 1) :
                 omegas[j + 1] - omegas[minidx + 1] > ArgminEps

C12_Witness ==
  /\ pc = "argmin_out"
  /\ minidx > 0
  /\ \E j \in 0..(minidx - 1) : omegas[j + 1] - MinOf(omegas) <= ArgminEps

(* |n[k]| > 0.5 for the component c = g[k] of the gradient *)
AbsGtHalf(c, g) == 4 * c * c > NormSq(g)

(* C13: the frame takes the (n_y, -n_x, 0) formula when |n_x| > 0.5 or
   |n_y| > 0.5 and the (-n_z, 0, n_x) formula otherwise, and the norm it
   divides by is never zero, also for normals with negative components. *)
C13_FrameGuard ==
  pc = "frame_out"
    => /\ (branch = "xy")
            <=> (AbsGtHalf(grad[1], grad) \/ AbsGtHalf(grad[2], grad))
       /\ nnsq # 0

(* C14: the projection returns after at most 100 Newton steps; it stops
   before the cap only when two successive iterates are closer than 1e-12 in
   squared distance, so at least one step is taken on every input; the
   warning is printed exactly when the number of steps is >= 90. *)
C14_NewtonSteps ==
  pc = "proj_done"
    => /\ n_iter <= 100
       /\ n_iter >= 1
       /\ n_iter < 100 => (d2 # NaNd /\ d2 < DistTol)
       /\ warned <=> n_iter >= 90

====
